---- MODULE Spec2Model ----
(***************************************************************************)
(* Model of the permutation generator of gmn-coding-assignment:            *)
(* src/util.ts (fill / shuffle / sort / bucket strategies, the mulberry32  *)
(* and xorshift128 generators) and src/index.ts (main).                    *)
(*                                                                         *)
(* A JavaScript number that holds an integer is the pair <<hi, lo>> with   *)
(* value hi * 65536 + lo, lo in 0..65535 and hi any integer.  An unsigned  *)
(* 32-bit word has hi in 0..65535, a signed one hi in -32768..32767.  The  *)
(* bitwise operators of JavaScript convert their operands to 32 bits and   *)
(* return a signed word (>>> returns an unsigned one); + is the plain      *)
(* addition of numbers and does not wrap.                                  *)
(***************************************************************************)
EXTENDS Integers, Sequences, FiniteSets, TLC

(***************************************************************************)
(* Bounds of the model.                                                    *)
(***************************************************************************)
MaxN == 4
MaxSeed == 95
MaxXsCalls == 120
RandDen == 6
MaxBucketN == 3
MaxK == 2
MaxSortN == 3
MaxMeasures == 2
MaxTick == 2
MaxCandLen == 3
MaxFillN == 5
MaxShuffleN == 4
MaxInvocations == 2

W == 2^16
HalfW == 2^15

(***************************************************************************)
(* Numbers and the 32-bit operators of JavaScript.                         *)
(***************************************************************************)
Num(hi, lo) == <<hi, lo>>

FromInt(k) == <<k \div W, k % W>>

IsUint32(x) == x[1] \in 0..(W - 1) /\ x[2] \in 0..(W - 1)

ToUint32(x) == <<x[1] % W, x[2]>>

ToInt32(x) == <<((x[1] + HalfW) % W) - HalfW, x[2]>>

\* x + y on numbers: no wrap-around
NumAdd(x, y) == <<x[1] + y[1] + ((x[2] + y[2]) \div W), (x[2] + y[2]) % W>>

RECURSIVE BitXor(_, _)
BitXor(a, b) ==
  IF a = 0 THEN b
  ELSE IF b = 0 THEN a
  ELSE (((a % 2) + (b % 2)) % 2) + 2 * BitXor(a \div 2, b \div 2)

RECURSIVE BitOr(_, _)
BitOr(a, b) ==
  IF a = 0 THEN b
  ELSE IF b = 0 THEN a
  ELSE (IF a % 2 = 1 \/ b % 2 = 1 THEN 1 ELSE 0) + 2 * BitOr(a \div 2, b \div 2)

\* x ^ y
Xor32(x, y) ==
  LET u == ToUint32(x)
      v == ToUint32(y)
  IN  ToInt32(<<BitXor(u[1], v[1]), BitXor(u[2], v[2])>>)

\* x | y
Or32(x, y) ==
  LET u == ToUint32(x)
      v == ToUint32(y)
  IN  ToInt32(<<BitOr(u[1], v[1]), BitOr(u[2], v[2])>>)

\* x >>> s, 0 <= s < 32
Shr32(x, s) ==
  LET u == ToUint32(x)
  IN  IF s = 0 THEN u
      ELSE IF s < 16
        THEN <<u[1] \div (2^s), ((u[1] % (2^s)) * (2^(16 - s))) + (u[2] \div (2^s))>>
        ELSE <<0, u[1] \div (2^(s - 16))>>

\* x << s, 0 <= s < 32
Shl32(x, s) ==
  LET u == ToUint32(x)
  IN  IF s = 0 THEN ToInt32(u)
      ELSE IF s < 16
        THEN ToInt32(<<((u[1] % (2^(16 - s))) * (2^s)) + (u[2] \div (2^(16 - s))),
                       (u[2] % (2^(16 - s))) * (2^s)>>)
        ELSE ToInt32(<<(u[2] % (2^(32 - s))) * (2^(s - 16)), 0>>)

\* the low 16 bits of x * y, for x, y in 0..65535
MulLo16(x, y) == ((x * (y % 256)) + (((x * (y \div 256)) % 256) * 256)) % W

\* the high 16 bits of x * y, for x, y in 0..65535
MulHi16(x, y) ==
  LET p0 == x * (y % 256)
      p1 == x * (y \div 256)
  IN  ((p0 + ((p1 % 256) * 256)) \div W) + (p1 \div 256)

\* Math.imul(x, y)
Imul(x, y) ==
  LET u == ToUint32(x)
      v == ToUint32(y)
  IN  ToInt32(<<(MulHi16(u[2], v[2]) + MulLo16(u[1], v[2]) + MulLo16(u[2], v[1])) % W,
                MulLo16(u[2], v[2])>>)

\* Math.floor((k / 4294967296) * m) for an unsigned word k and a small m >= 0
FloorScale(k, m) == ((k[1] * m) + ((k[2] * m) \div W)) \div W

(***************************************************************************)
(* mulberry32: one call of the closure returned by mulberry32(seed).       *)
(* Returns the new value of the captured seed and the numerator k of the   *)
(* returned value k / 4294967296.                                          *)
(***************************************************************************)
Increment == <<27947, 31221>>   \* 0x6D2B79F5

mulberry32_signed(s) ==
  LET s1 == NumAdd(s, Increment)
      t1 == Imul(Xor32(s1, Shr32(s1, 15)), Or32(s1, <<0, 1>>))
      t2 == Xor32(t1, NumAdd(t1, Imul(Xor32(t1, Shr32(t1, 7)), Or32(t1, <<0, 61>>))))
  IN  [seed |-> s1, k |-> Xor32(t2, Shr32(t2, 14))]

mulberry32(s) ==
  LET s1 == NumAdd(s, Increment)
      t1 == Imul(Xor32(s1, Shr32(s1, 15)), Or32(s1, <<0, 1>>))
      t2 == Xor32(t1, NumAdd(t1, Imul(Xor32(t1, Shr32(t1, 7)), Or32(t1, <<0, 61>>))))
  IN  [seed |-> s1, k |-> Shr32(Xor32(t2, Shr32(t2, 14)), 0)]

(***************************************************************************)
(* xorshift128_rand: one call on the module state <<_x, _y, _z, _w>>.      *)
(***************************************************************************)
xorshift128_w_signed(x, w) ==
  LET t == Xor32(x, Shl32(x, 11))
  IN  Xor32(Xor32(Xor32(w, Shr32(t, 8)), Shr32(w, 19)), Shl32(t, 13))

xorshift128_w(x, w) ==
  LET t == Xor32(x, Shl32(x, 11))
  IN  Shr32(Xor32(Xor32(Xor32(w, Shr32(t, 8)), Shr32(w, 19)), Shl32(t, 13)), 0)

VARIABLES
  pc,       \* per run: position of the strategy thunk
  n,        \* per run: the size the strategy factory was given
  strat,    \* per run: the strategy that is run
  a,        \* per run: the buffer of the thunk
  i,        \* per run: the loop variable of the thunk
  seed,     \* per run: the seed captured by the closure mulberry32_rand
  outs,     \* per run: the values mulberry32_rand has returned (numerators)
  _x, _y, _z, _w,   \* the module state of xorshift128_rand
  xsRet,    \* the value the last call of xorshift128_rand returned
  xsCalls,  \* the number of calls of xorshift128_rand
  argv2,    \* main: process.argv[2]
  mainPc,   \* main: position
  stderr,   \* main: what console.error has written
  stdout,   \* main: what process.stdout.write has written
  exitCode, \* main: the exit status, -1 while the process runs
  m,        \* BucketRadixShuffle: the memory of the caller
  bn,       \* BucketRadixShuffle: n
  bi,       \* BucketRadixShuffle: the index i of the distribution loop
  ba,       \* BucketRadixShuffle: the buffer a it returns
  bpc,      \* BucketRadixShuffle: position
  sa,       \* AFIR_x_SORT: the array a
  sn,       \* AFIR_x_SORT: n
  si,       \* AFIR_x_SORT: the index i of the fill loop
  spc,      \* AFIR_x_SORT: position
  binv,     \* BucketRadixShuffle: how many times the thunk has been invoked
  mPc,      \* measure: position
  mArgs,    \* measure: args (what f does, n, name)
  clock,    \* measure: what performance.now() returns, in milliseconds
  mNow,     \* measure: now
  mLog,     \* measure: clock readings, calls of f and records of this call
  mRecords, \* measure: what console.warn has written
  mCalls,   \* measure: the number of calls of measure
  tPc,      \* test: position
  tN,       \* test: n
  tA,       \* test: the reference array a
  tB,       \* test: the array b that is checked
  tCand,    \* test: b as it was handed to the check
  fN,       \* arrayFillA / arrayFillB: n
  fA,       \* arrayFillA: the array it builds
  fAi,      \* arrayFillA: the index the map function is called with next
  fApc,     \* arrayFillA: position
  fB,       \* arrayFillB: a
  fBi,      \* arrayFillB: i
  fBpc,     \* arrayFillB: position
  asPc,     \* per run of arrayShuffle / AFB_x_AS: position
  asN,      \* per run of arrayShuffle / AFB_x_AS: the length
  asStrat,  \* per run: arrayShuffle or AFB_x_AS
  asA,      \* per run of arrayShuffle / AFB_x_AS: a
  asI,      \* per run of arrayShuffle / AFB_x_AS: i
  asJs      \* per run of arrayShuffle / AFB_x_AS: the indices j drawn so far

runVars == <<pc, n, strat, a, i, seed, outs>>
xsVars == <<_x, _y, _z, _w, xsRet, xsCalls>>
mainVars == <<argv2, mainPc, stderr, stdout, exitCode>>
bucketVars == <<m, bn, bi, ba, bpc, binv>>
sortVars == <<sa, sn, si, spc>>
measureVars == <<mPc, mArgs, clock, mNow, mLog, mRecords, mCalls>>
testVars == <<tPc, tN, tA, tB, tCand>>
fillVars == <<fN, fA, fAi, fApc, fB, fBi, fBpc>>
asVars == <<asPc, asN, asStrat, asA, asI, asJs>>
extraVars == <<measureVars, testVars, fillVars, asVars>>
vars == <<runVars, xsVars, mainVars, bucketVars, sortVars, extraVars>>

(***************************************************************************)
(* Two runs of a strategy, each with its own instance of the module (its   *)
(* own mulberry32_rand), started with the same strategy, size and seed.    *)
(***************************************************************************)
Runs == {1, 2}

OPT == "AFB_x_AS_x_OPT"
NO_INIT == "AFB_x_AS_x_OPT_x_NO_INIT"
RM == "randomMulberry32"

\* Date.now() at the load of the module, and seeds handed to mulberry32
DateNowSet == {<<25939941, 26624>>, <<26892684, 61376>>, <<26892684, 61377>>}
SeedSet == {FromInt(k) : k \in 0..MaxSeed} \cup {<<65535, 65535>>} \cup DateNowSet

SizeSet == {-1} \cup (0..MaxN)

Zeros(len) == [k \in 1..len |-> 0]

IdleRuns ==
  /\ pc = [p \in Runs |-> "idle"]
  /\ n = [p \in Runs |-> 0]
  /\ strat = [p \in Runs |-> OPT]
  /\ a = [p \in Runs |-> <<>>]
  /\ i = [p \in Runs |-> 0]
  /\ outs = [p \in Runs |-> <<>>]

IdleXs ==
  /\ _w = FromInt(88675123)
  /\ _x = FromInt(123456789)
  /\ _y = FromInt(362436069)
  /\ _z = FromInt(521288629)
  /\ xsRet = <<0, 0>>
  /\ xsCalls = 0

IdleMain ==
  /\ argv2 = [present |-> FALSE, chars |-> <<>>]
  /\ mainPc = "idle"
  /\ stderr = <<>>
  /\ stdout = <<>>
  /\ exitCode = -1

IdleBucket ==
  /\ m = <<>>
  /\ bn = 0
  /\ bi = 0
  /\ ba = <<>>
  /\ bpc = "idle"
  /\ binv = 0

IdleSort ==
  /\ sa = <<>>
  /\ sn = 0
  /\ si = 0
  /\ spc = "idle"

IdleMeasure ==
  /\ mPc = "idle"
  /\ mArgs = [f |-> "returns", n |-> 0, name |-> ""]
  /\ clock = 0
  /\ mNow = 0
  /\ mLog = <<>>
  /\ mRecords = <<>>
  /\ mCalls = 0

IdleTest ==
  /\ tPc = "idle"
  /\ tN = 0
  /\ tA = <<>>
  /\ tB = <<>>
  /\ tCand = <<>>

IdleFill ==
  /\ fN = 0
  /\ fA = <<>>
  /\ fAi = 0
  /\ fApc = "idle"
  /\ fB = <<>>
  /\ fBi = 0
  /\ fBpc = "idle"

IdleAS ==
  /\ asPc = [u \in Runs |-> "idle"]
  /\ asN = [u \in Runs |-> 0]
  /\ asStrat = [u \in Runs |-> "AFB_x_AS"]
  /\ asA = [u \in Runs |-> <<>>]
  /\ asI = [u \in Runs |-> 0]
  /\ asJs = [u \in Runs |-> <<>>]

IdleExtra == IdleMeasure /\ IdleTest /\ IdleFill /\ IdleAS

\* seed += 0x6D2B79F5 writes the variable captured by the closure of run p
StoreSeedShared(p, s1) == [q \in Runs |-> s1]
StoreSeed(p, s1) == [seed EXCEPT ![p] = s1]

\* one call mulberry32_rand() in run p: the state after it
Drawn(p) == mulberry32(seed[p])
AfterDraw(p) ==
  /\ seed' = StoreSeed(p, Drawn(p).seed)
  /\ outs' = [outs EXCEPT ![p] = Append(@, Drawn(p).k)]

\* const a = new Uint32Array(n)
AFB_x_AS_x_OPT_Alloc(p) ==
  /\ pc[p] = "start"
  /\ strat[p] = OPT
  /\ IF n[p] < 0
       THEN /\ pc' = [pc EXCEPT ![p] = "RangeError"]
            /\ a' = a
       ELSE /\ pc' = [pc EXCEPT ![p] = "fill"]
            /\ a' = [a EXCEPT ![p] = Zeros(n[p])]
  /\ UNCHANGED <<n, strat, i, seed, outs, xsVars, mainVars, bucketVars, sortVars, extraVars>>

\* for(let i=0;i<n;++i) a[i] = i+1;
FillAscending(len) == [k \in 1..len |-> k]

AFB_x_AS_x_OPT_Fill_short(p) ==
  /\ pc[p] = "fill"
  /\ a' = [a EXCEPT ![p] = FillAscending(n[p])]
  /\ i' = [i EXCEPT ![p] = n[p] - 2]
  /\ pc' = [pc EXCEPT ![p] = "shuffle"]
  /\ UNCHANGED <<n, strat, seed, outs, xsVars, mainVars, bucketVars, sortVars, extraVars>>

AFB_x_AS_x_OPT_Fill(p) ==
  /\ pc[p] = "fill"
  /\ a' = [a EXCEPT ![p] = FillAscending(n[p])]
  /\ i' = [i EXCEPT ![p] = n[p] - 1]
  /\ pc' = [pc EXCEPT ![p] = "shuffle"]
  /\ UNCHANGED <<n, strat, seed, outs, xsVars, mainVars, bucketVars, sortVars, extraVars>>

\* let t = a[i]; a[i] = a[j]; a[j] = t;     (b is 1-based: b[i+1] is a[i])
SwapLost(b, ii, jj) == [b EXCEPT ![ii + 1] = b[jj + 1]]
Swap(b, ii, jj) == [b EXCEPT ![ii + 1] = b[jj + 1], ![jj + 1] = b[ii + 1]]

\* one iteration of for(let i=n-1;i>0;--i) { ... }
AFB_x_AS_x_OPT_Swap(p) ==
  /\ pc[p] = "shuffle"
  /\ strat[p] = OPT
  /\ i[p] > 0
  /\ LET j == FloorScale(Drawn(p).k, i[p] + 1)
     IN  a' = [a EXCEPT ![p] = Swap(a[p], i[p], j)]
  /\ AfterDraw(p)
  /\ i' = [i EXCEPT ![p] = i[p] - 1]
  /\ UNCHANGED <<pc, n, strat, xsVars, mainVars, bucketVars, sortVars, extraVars>>

\* return a;
AFB_x_AS_x_OPT_Return(p) ==
  /\ pc[p] = "shuffle"
  /\ strat[p] = OPT
  /\ ~(i[p] > 0)
  /\ pc' = [pc EXCEPT ![p] = "returned"]
  /\ UNCHANGED <<n, strat, a, i, seed, outs, xsVars, mainVars, bucketVars, sortVars, extraVars>>

\* const a = new Uint32Array(n); the loop starts at i = n-1
AFB_x_AS_x_OPT_x_NO_INIT_Alloc(p) ==
  /\ pc[p] = "start"
  /\ strat[p] = NO_INIT
  /\ IF n[p] < 0
       THEN /\ pc' = [pc EXCEPT ![p] = "RangeError"]
            /\ UNCHANGED <<a, i>>
       ELSE /\ pc' = [pc EXCEPT ![p] = "shuffle"]
            /\ a' = [a EXCEPT ![p] = Zeros(n[p])]
            /\ i' = [i EXCEPT ![p] = n[p] - 1]
  /\ UNCHANGED <<n, strat, seed, outs, xsVars, mainVars, bucketVars, sortVars, extraVars>>

\* v || d
OrElse(v, d) == IF v # 0 THEN v ELSE d

\* let t = a[i]||(i+1); a[i] = a[j]||(j+1); a[j] = t;
SwapNoInit(b, ii, jj) ==
  LET t == OrElse(b[ii + 1], ii + 1)
      b1 == [b EXCEPT ![ii + 1] = OrElse(b[jj + 1], jj + 1)]
  IN  [b1 EXCEPT ![jj + 1] = t]

AFB_x_AS_x_OPT_x_NO_INIT_Swap(p) ==
  /\ pc[p] = "shuffle"
  /\ strat[p] = NO_INIT
  /\ i[p] > 0
  /\ LET j == FloorScale(Drawn(p).k, i[p] + 1)
     IN  a' = [a EXCEPT ![p] = SwapNoInit(a[p], i[p], j)]
  /\ AfterDraw(p)
  /\ i' = [i EXCEPT ![p] = i[p] - 1]
  /\ UNCHANGED <<pc, n, strat, xsVars, mainVars, bucketVars, sortVars, extraVars>>

AFB_x_AS_x_OPT_x_NO_INIT_Return(p) ==
  /\ pc[p] = "shuffle"
  /\ strat[p] = NO_INIT
  /\ ~(i[p] > 0)
  /\ pc' = [pc EXCEPT ![p] = "returned"]
  /\ UNCHANGED <<n, strat, a, i, seed, outs, xsVars, mainVars, bucketVars, sortVars, extraVars>>

\* randomMulberry32(n)(): for(let i=0;i<n;++i) mulberry32_rand();
randomMulberry32_Call(p) ==
  /\ pc[p] = "start"
  /\ strat[p] = RM
  /\ i[p] < n[p]
  /\ AfterDraw(p)
  /\ i' = [i EXCEPT ![p] = i[p] + 1]
  /\ UNCHANGED <<pc, n, strat, a, xsVars, mainVars, bucketVars, sortVars, extraVars>>

randomMulberry32_Return(p) ==
  /\ pc[p] = "start"
  /\ strat[p] = RM
  /\ ~(i[p] < n[p])
  /\ pc' = [pc EXCEPT ![p] = "returned"]
  /\ UNCHANGED <<n, strat, a, i, seed, outs, xsVars, mainVars, bucketVars, sortVars, extraVars>>

InitRuns ==
  /\ \E s \in SeedSet : seed = [p \in Runs |-> s]
  /\ \E nn \in SizeSet : n = [p \in Runs |-> nn]
  /\ \E st \in {OPT, NO_INIT, RM} : strat = [p \in Runs |-> st]
  /\ pc = [p \in Runs |-> "start"]
  /\ a = [p \in Runs |-> <<>>]
  /\ i = [p \in Runs |-> 0]
  /\ outs = [p \in Runs |-> <<>>]
  /\ IdleXs
  /\ IdleMain
  /\ IdleBucket
  /\ IdleSort
  /\ IdleExtra

NextRuns ==
  \E p \in Runs :
    \/ AFB_x_AS_x_OPT_Alloc(p)
    \/ AFB_x_AS_x_OPT_Fill(p)
    \/ AFB_x_AS_x_OPT_Swap(p)
    \/ AFB_x_AS_x_OPT_Return(p)
    \/ AFB_x_AS_x_OPT_x_NO_INIT_Alloc(p)
    \/ AFB_x_AS_x_OPT_x_NO_INIT_Swap(p)
    \/ AFB_x_AS_x_OPT_x_NO_INIT_Return(p)
    \/ randomMulberry32_Call(p)
    \/ randomMulberry32_Return(p)

SpecRuns == InitRuns /\ [][NextRuns]_vars

(***************************************************************************)
(* xorshift128_rand called again and again on the module state.            *)
(***************************************************************************)
xorshift128_rand ==
  /\ xsCalls < MaxXsCalls
  /\ _x' = _y
  /\ _y' = _z
  /\ _z' = _w
  /\ _w' = xorshift128_w(_x, _w)
  /\ xsRet' = _w'
  /\ xsCalls' = xsCalls + 1
  /\ UNCHANGED <<runVars, mainVars, bucketVars, sortVars, extraVars>>

InitXs ==
  /\ IdleXs
  /\ IdleRuns
  /\ seed = [p \in Runs |-> <<0, 0>>]
  /\ IdleMain
  /\ IdleBucket
  /\ IdleSort
  /\ IdleExtra

NextXs == xorshift128_rand

SpecXs == InitXs /\ [][NextXs]_vars

(***************************************************************************)
(* Properties of the runs and of the generators.                           *)
(***************************************************************************)
\* b has length len and holds each of 1..len exactly once
IsPermutation(b, len) ==
  /\ Len(b) = len
  /\ \A v \in 1..len : Cardinality({k \in 1..Len(b) : b[k] = v}) = 1

Min(x, y) == IF x < y THEN x ELSE y

\* C1: in AFB_x_AS_x_OPT(N)() with N >= 1 the buffer has length N and is a
\* permutation of 1..N after the fill loop, after every swap of the shuffle
\* loop and when it is returned.
C1_OptPermutation ==
  \A p \in Runs :
    (strat[p] = OPT /\ n[p] >= 1 /\ pc[p] \in {"shuffle", "returned"})
      => IsPermutation(a[p], n[p])

C1_Witness ==
  \E p \in Runs :
    /\ strat[p] = OPT
    /\ pc[p] = "returned"
    /\ n[p] >= 3
    /\ Len(outs[p]) = n[p] - 1
    /\ a[p] # FillAscending(n[p])

\* C3: AFB_x_AS_x_OPT_x_NO_INIT(N)() with N >= 1 returns a buffer of length
\* N that is a permutation of 1..N, no slot left at its initial 0.
C3_NoInitPermutation ==
  \A p \in Runs :
    (strat[p] = NO_INIT /\ n[p] >= 1 /\ pc[p] = "returned")
      => IsPermutation(a[p], n[p])

\* C7: a permutation strategy given a size that is zero or negative fails
\* before it allocates a buffer and never returns one.
C7_InvalidSizeRejected ==
  \A p \in Runs :
    (strat[p] \in {OPT, NO_INIT} /\ n[p] <= 0)
      => pc[p] \notin {"fill", "shuffle", "returned"}

C9_SeedIsUint32 == \A p \in Runs : IsUint32(seed[p])

\* C10: the four state words of xorshift128_rand stay in [0, 2^32); a call
\* moves _y, _z, _w down into _x, _y, _z, computes the new _w from the old
\* _x and _w and returns it, an integer in [0, 2^32).
C10_XorshiftWords ==
  /\ [](/\ IsUint32(_x) /\ IsUint32(_y) /\ IsUint32(_z) /\ IsUint32(_w)
        /\ IsUint32(xsRet)
        /\ (xsCalls > 0 => xsRet = _w))
  /\ [][xsCalls' # xsCalls =>
          /\ _x' = _y /\ _y' = _z /\ _z' = _w
          /\ xsRet' = _w'
          /\ xsCalls' = xsCalls + 1]_vars

C10_Witness ==
  /\ xsCalls >= 5
  /\ _w # FromInt(88675123)
  /\ _x # FromInt(123456789)
  /\ _w[1] >= HalfW

(***************************************************************************)
(* main of index.ts.  A command-line argument is a sequence of characters; *)
(* Number(argv2) is a record: kind "nan", "inf" or "num", and for "num"    *)
(* the value num / den (den a power of ten).                               *)
(***************************************************************************)
Digits == {"0", "1", "2", "3", "4", "5", "6", "7", "8", "9"}

DigitValue(c) ==
  CASE c = "0" -> 0 [] c = "1" -> 1 [] c = "2" -> 2 [] c = "3" -> 3
    [] c = "4" -> 4 [] c = "5" -> 5 [] c = "6" -> 6 [] c = "7" -> 7
    [] c = "8" -> 8 [] c = "9" -> 9

AllDigits(cs) == \A k \in 1..Len(cs) : cs[k] \in Digits

RECURSIVE DigitsValue(_)
DigitsValue(cs) ==
  IF cs = <<>> THEN 0
  ELSE (DigitsValue(SubSeq(cs, 1, Len(cs) - 1)) * 10) + DigitValue(cs[Len(cs)])

NaN == [kind |-> "nan", num |-> 0, den |-> 1]

\* Number(text) for texts without white space, exponent or radix prefix (the
\* texts of ArgvSet): the empty string is 0; [+-]Infinity; [+-]digits[.digits]
\* with at least one digit; anything else is NaN
Number(cs) ==
  IF cs = <<>> THEN [kind |-> "num", num |-> 0, den |-> 1]
  ELSE
    LET signed == cs[1] \in {"-", "+"}
        sign == IF cs[1] = "-" THEN -1 ELSE 1
        body == IF signed THEN Tail(cs) ELSE cs
        dots == {k \in 1..Len(body) : body[k] = "."}
    IN  IF body = <<"I", "n", "f", "i", "n", "i", "t", "y">>
          THEN [kind |-> "inf", num |-> sign, den |-> 1]
        ELSE IF dots = {}
          THEN IF body # <<>> /\ AllDigits(body)
                 THEN [kind |-> "num", num |-> sign * DigitsValue(body), den |-> 1]
                 ELSE NaN
        ELSE IF Cardinality(dots) = 1
          THEN LET d == CHOOSE k \in dots : TRUE
                   ip == SubSeq(body, 1, d - 1)
                   fp == SubSeq(body, d + 1, Len(body))
               IN  IF AllDigits(ip) /\ AllDigits(fp) /\ Len(ip) + Len(fp) > 0
                     THEN [kind |-> "num",
                           num |-> sign * DigitsValue(ip \o fp),
                           den |-> 10^Len(fp)]
                     ELSE NaN
        ELSE NaN

\* Number.isInteger(x)
NumberIsInteger(x) == x.kind = "num" /\ x.num % x.den = 0

\* x < 1
LessThanOne(x) ==
  \/ x.kind = "num" /\ x.num < x.den
  \/ x.kind = "inf" /\ x.num < 0

\* !Number.isInteger(n) || n < 1
RejectsSizeNoIntegerTest(x) == LessThanOne(x)
RejectsSize(x) == ~NumberIsInteger(x) \/ LessThanOne(x)

\* the integer a number is used as where a length is expected
AsLength(x) == IF x.kind = "num" THEN x.num \div x.den ELSE 0

\* if(!argv2) { console.error(...); process.exit(1); }
main_NoArgument ==
  /\ mainPc = "start"
  /\ ~argv2.present \/ argv2.chars = <<>>
  /\ stderr' = Append(stderr, "Enter a number n as a command line argument.")
  /\ exitCode' = 1
  /\ mainPc' = "exited"
  /\ UNCHANGED <<argv2, stdout, runVars, xsVars, bucketVars, sortVars, extraVars>>

\* if(!Number.isInteger(n) || n < 1) { console.error(...); process.exit(1); }
main_InvalidSize ==
  /\ mainPc = "start"
  /\ ~(~argv2.present \/ argv2.chars = <<>>)
  /\ RejectsSize(Number(argv2.chars))
  /\ stderr' = Append(stderr, "n must be a positive integer (> 0).")
  /\ exitCode' = 1
  /\ mainPc' = "exited"
  /\ UNCHANGED <<argv2, stdout, runVars, xsVars, bucketVars, sortVars, extraVars>>

\* const a = AFB_x_AS_x_OPT(n)();   the thunk of run 1 is entered
main_Call ==
  /\ mainPc = "start"
  /\ ~(~argv2.present \/ argv2.chars = <<>>)
  /\ ~RejectsSize(Number(argv2.chars))
  /\ mainPc' = "called"
  /\ n' = [n EXCEPT ![1] = AsLength(Number(argv2.chars))]
  /\ strat' = [strat EXCEPT ![1] = OPT]
  /\ pc' = [pc EXCEPT ![1] = "start"]
  /\ UNCHANGED <<a, i, seed, outs, argv2, stderr, stdout, exitCode,
                 xsVars, bucketVars, sortVars, extraVars>>

\* a[i].toString() for a non-negative integer, as a sequence of characters
DigitChar(d) ==
  CASE d = 0 -> "0" [] d = 1 -> "1" [] d = 2 -> "2" [] d = 3 -> "3"
    [] d = 4 -> "4" [] d = 5 -> "5" [] d = 6 -> "6" [] d = 7 -> "7"
    [] d = 8 -> "8" [] d = 9 -> "9"

RECURSIVE NumberToString(_)
NumberToString(v) ==
  IF v < 10 THEN <<DigitChar(v)>>
  ELSE NumberToString(v \div 10) \o <<DigitChar(v % 10)>>

\* the loop that writes a[0],a[1],... separated by commas
RECURSIVE Joined(_)
Joined(b) ==
  IF b = <<>> THEN <<>>
  ELSE IF Len(b) = 1 THEN NumberToString(b[1])
  ELSE Joined(SubSeq(b, 1, Len(b) - 1)) \o <<",">> \o NumberToString(b[Len(b)])

main_Write ==
  /\ mainPc = "called"
  /\ pc[1] = "returned"
  /\ stdout' = Joined(a[1]) \o <<"\n">>
  /\ exitCode' = 0
  /\ mainPc' = "exited"
  /\ UNCHANGED <<argv2, stderr, runVars, xsVars, bucketVars, sortVars, extraVars>>

Chars(text) == [present |-> TRUE, chars |-> text]

ArgvSet ==
  { [present |-> FALSE, chars |-> <<>>],
    Chars(<<>>), Chars(<<"0">>), Chars(<<"-", "5">>), Chars(<<"3", ".", "7">>),
    Chars(<<"a", "b", "c">>), Chars(<<"-", "0">>), Chars(<<"0", ".", "5">>),
    Chars(<<"I", "n", "f", "i", "n", "i", "t", "y">>),
    Chars(<<"-", "I", "n", "f", "i", "n", "i", "t", "y">>),
    Chars(<<"1", "x">>), Chars(<<"1", ".", "2", ".", "3">>), Chars(<<"-">>),
    Chars(<<"1">>), Chars(<<"2">>), Chars(<<"3">>), Chars(<<"+", "4">>),
    Chars(<<"5", ".">>), Chars(<<"2", ".", "0">>), Chars(<<"0", "7">>),
    Chars(<<"1", "0">>) }

InitMain ==
  /\ argv2 \in ArgvSet
  /\ mainPc = "start"
  /\ stderr = <<>>
  /\ stdout = <<>>
  /\ exitCode = -1
  /\ IdleRuns
  /\ \E s \in DateNowSet : seed = [p \in Runs |-> s]
  /\ IdleXs
  /\ IdleBucket
  /\ IdleSort
  /\ IdleExtra

NextMain ==
  \/ main_NoArgument
  \/ main_InvalidSize
  \/ main_Call
  \/ main_Write
  \/ AFB_x_AS_x_OPT_Alloc(1)
  \/ AFB_x_AS_x_OPT_Fill(1)
  \/ AFB_x_AS_x_OPT_Swap(1)
  \/ AFB_x_AS_x_OPT_Return(1)

SpecMain == InitMain /\ [][NextMain]_vars

\* the text of the argument denotes a positive integer
DenotesPositiveInteger(arg) ==
  /\ arg.present
  /\ LET x == Number(arg.chars)
     IN  x.kind = "num" /\ \E k \in 1..10 : x.num = k * x.den

\* C6: when the size on the command line is missing or is not a positive
\* integer, main ends with a message and exit status 1 and AFB_x_AS_x_OPT
\* is never entered, so no buffer exists; the strategy is entered only
\* after the check has passed.
C6_MainRejectsInvalidSize ==
  /\ (~DenotesPositiveInteger(argv2) /\ mainPc # "start") =>
        /\ mainPc = "exited"
        /\ exitCode = 1
        /\ Len(stderr) = 1
        /\ stdout = <<>>
  /\ ~DenotesPositiveInteger(argv2) => (pc[1] = "idle" /\ a[1] = <<>>)
  /\ pc[1] # "idle" =>
        /\ ~RejectsSize(Number(argv2.chars))
        /\ n[1] >= 1
        /\ mainPc \in {"called", "exited"}

C6_Witness ==
  /\ mainPc = "exited"
  /\ exitCode = 1
  /\ argv2.present
  /\ Number(argv2.chars).kind = "num"
  /\ Number(argv2.chars).den = 10
  /\ pc[1] = "idle"

(***************************************************************************)
(* Math.random() returns k / RandDen for some k in 0..RandDen-1.           *)
(***************************************************************************)
RandomSet == 0..(RandDen - 1)

\* Math.floor(Math.random() * len)
FloorRandom(k, len) == (k * len) \div RandDen

(***************************************************************************)
(* BucketRadixShuffle(m, n)().  A value of the memory, and an element of   *)
(* the returned array, is a number or an array of numbers.                 *)
(***************************************************************************)
NumberValue(v) == [tag |-> "num", num |-> v, arr |-> <<>>]
ArrayValue(vs) == [tag |-> "arr", num |-> 0, arr |-> vs]

\* the truth value of a slot: 0 is false, an array is true
Truthy(slot) == slot.tag = "arr" \/ slot.num # 0

\* an iteration that overwrites the number a slot holds
PlaceOverwrite(mem, r, ii) ==
  LET slot == mem[r + 1]
  IN  IF slot.tag # "arr"
        THEN [mem EXCEPT ![r + 1] = NumberValue(ii + 1)]
      ELSE [mem EXCEPT ![r + 1] = ArrayValue(Append(slot.arr, ii + 1))]

\* one iteration of the distribution loop with the slot position r
Place(mem, r, ii) ==
  LET slot == mem[r + 1]
  IN  IF ~Truthy(slot)
        THEN [mem EXCEPT ![r + 1] = NumberValue(ii + 1)]
      ELSE IF slot.tag # "arr"
        THEN [mem EXCEPT ![r + 1] = ArrayValue(<<slot.num, ii + 1>>)]
      ELSE [mem EXCEPT ![r + 1] = ArrayValue(Append(slot.arr, ii + 1))]

BucketRadixShuffle_Place ==
  /\ bpc = "distribute"
  /\ bi < bn
  /\ \E k \in RandomSet : m' = Place(m, FloorRandom(k, Len(m)), bi)
  /\ bi' = bi + 1
  /\ UNCHANGED <<bn, ba, bpc, binv, runVars, xsVars, mainVars, sortVars, extraVars>>

\* Array.isArray(m[1]): the slot at position 1, undefined in a memory of one
SlotOneIsArray(mem) == Len(mem) >= 2 /\ mem[2].tag = "arr"

\* what the collection loop pushes for one slot
Pushed(mem, slot) ==
  IF ~Truthy(slot) THEN <<>>
  ELSE IF ~SlotOneIsArray(mem) THEN <<slot>>
  ELSE [j \in 1..Len(slot.arr) |-> NumberValue(slot.arr[j])]

RECURSIVE Collect(_, _)
Collect(mem, upTo) ==
  IF upTo = 0 THEN <<>>
  ELSE Collect(mem, upTo - 1) \o Pushed(mem, mem[upTo])

\* const a = []; the collection loop; return a;
BucketRadixShuffle_Collect ==
  /\ bpc = "distribute"
  /\ ~(bi < bn)
  /\ ba' = Collect(m, Len(m))
  /\ bpc' = "returned"
  /\ UNCHANGED <<m, bn, bi, binv, runVars, xsVars, mainVars, sortVars, extraVars>>

\* the memory is arrayFillZero(k * n)()
InitBucket ==
  /\ bn \in 1..MaxBucketN
  /\ \E k \in 1..MaxK : m = [s \in 1..(k * bn) |-> NumberValue(0)]
  /\ bi = 0
  /\ ba = <<>>
  /\ bpc = "distribute"
  /\ binv = 1
  /\ IdleRuns
  /\ seed = [p \in Runs |-> <<0, 0>>]
  /\ IdleXs
  /\ IdleMain
  /\ IdleSort
  /\ IdleExtra

\* the thunk is called again: the same m and n, a new i and a new a
BucketRadixShuffle_Invoke ==
  /\ bpc = "returned"
  /\ binv < MaxInvocations
  /\ bi' = 0
  /\ bpc' = "distribute"
  /\ binv' = binv + 1
  /\ ba' = <<>>
  /\ UNCHANGED <<m, bn, runVars, xsVars, mainVars, sortVars, extraVars>>

NextBucket ==
  \/ BucketRadixShuffle_Place
  \/ BucketRadixShuffle_Collect
  \/ BucketRadixShuffle_Invoke

SpecBucket == InitBucket /\ [][NextBucket]_vars

\* the contents of a slot as a flat list of numbers
SlotNumbers(slot) ==
  IF ~Truthy(slot) THEN <<>>
  ELSE IF slot.tag = "arr" THEN slot.arr
  ELSE <<slot.num>>

RECURSIVE Flat(_, _)
Flat(mem, upTo) ==
  IF upTo = 0 THEN <<>>
  ELSE Flat(mem, upTo - 1) \o SlotNumbers(mem[upTo])

\* C2: BucketRadixShuffle(m, N)() on zeroed memory of k*N slots returns a
\* flat buffer of exactly N numbers, each of 1..N once: the slots scanned
\* in order, a single value emitted as itself, a list as its elements.
C2_BucketFlatPermutation ==
  (bpc = "returned" /\ binv = 1) =>
    /\ Len(ba) = bn
    /\ \A k \in 1..Len(ba) : ba[k].tag = "num"
    /\ \A v \in 1..bn :
         Cardinality({k \in 1..Len(ba) : ba[k] = NumberValue(v)}) = 1
    /\ ba = [k \in 1..Len(Flat(m, Len(m))) |-> NumberValue(Flat(m, Len(m))[k])]

\* C5: in the output of BucketRadixShuffle(m, N)(), the indices that were
\* drawn into one slot appear as individual numbers, next to each other and
\* in ascending order.
C5_CollisionsAdjacentAscending ==
  (bpc = "returned" /\ binv = 1) =>
    \A s \in 1..Len(m) :
      m[s].tag = "arr" =>
        /\ \A j \in 1..(Len(m[s].arr) - 1) : m[s].arr[j] < m[s].arr[j + 1]
        /\ \E at \in 0..Len(ba) :
             /\ at + Len(m[s].arr) <= Len(ba)
             /\ \A j \in 1..Len(m[s].arr) :
                  ba[at + j] = NumberValue(m[s].arr[j])

(***************************************************************************)
(* AFIR_x_SORT(n)().  An element of the array is <<key, index>>, the key   *)
(* the numerator of the value of Math.random(); Undefined is a hole.       *)
(***************************************************************************)
Undefined == <<-1, 0>>

\* const a = Array.from({ length:n });   a negative length is 0
AFIR_x_SORT_Alloc ==
  /\ spc = "start"
  /\ sa' = [k \in 1..(IF sn < 0 THEN 0 ELSE sn) |-> Undefined]
  /\ si' = 0
  /\ spc' = "fill"
  /\ UNCHANGED <<sn, runVars, xsVars, mainVars, bucketVars, extraVars>>

\* a[i] = [Math.random(), i+1];
AFIR_x_SORT_Put ==
  /\ spc = "fill"
  /\ si < sn
  /\ \E k \in RandomSet : sa' = [sa EXCEPT ![si + 1] = <<k, si + 1>>]
  /\ si' = si + 1
  /\ UNCHANGED <<sn, spc, runVars, xsVars, mainVars, bucketVars, extraVars>>

\* (_a, _b) => _a[0]-_b[0]
CompareByIndex(x, y) == x[2] - y[2]
Compare(x, y) == x[1] - y[1]

\* e put after the elements of the sorted list that do not compare greater
RECURSIVE Insert(_, _)
Insert(sorted, e) ==
  IF sorted = <<>> THEN <<e>>
  ELSE IF Compare(sorted[Len(sorted)], e) > 0
    THEN Append(Insert(SubSeq(sorted, 1, Len(sorted) - 1), e), sorted[Len(sorted)])
    ELSE Append(sorted, e)

\* Array.prototype.sort with the comparison function: a stable sort
RECURSIVE Sort(_)
Sort(b) ==
  IF b = <<>> THEN <<>>
  ELSE Insert(Sort(SubSeq(b, 1, Len(b) - 1)), b[Len(b)])

\* a.sort(...); return a;
AFIR_x_SORT_Sort ==
  /\ spc = "fill"
  /\ ~(si < sn)
  /\ sa' = Sort(sa)
  /\ spc' = "returned"
  /\ UNCHANGED <<sn, si, runVars, xsVars, mainVars, bucketVars, extraVars>>

InitSort ==
  /\ sn \in {-1} \cup (0..MaxSortN)
  /\ sa = <<>>
  /\ si = 0
  /\ spc = "start"
  /\ IdleRuns
  /\ seed = [p \in Runs |-> <<0, 0>>]
  /\ IdleXs
  /\ IdleMain
  /\ IdleBucket
  /\ IdleExtra

NextSort ==
  \/ AFIR_x_SORT_Alloc
  \/ AFIR_x_SORT_Put
  \/ AFIR_x_SORT_Sort

SpecSort == InitSort /\ [][NextSort]_vars

\* C4: AFIR_x_SORT(N)() with N >= 1 returns N pairs whose keys are in
\* non-decreasing order and whose indices, in output order, are a
\* permutation of 1..N, whatever the keys are, equal ones included.
C4_SortedKeysPermutedIndices ==
  (spc = "returned" /\ sn >= 1) =>
    /\ Len(sa) = sn
    /\ \A k \in 1..(Len(sa) - 1) : sa[k][1] <= sa[k + 1][1]
    /\ \A k \in 1..Len(sa) : sa[k][1] \in RandomSet
    /\ IsPermutation([k \in 1..Len(sa) |-> sa[k][2]], sn)

C4_Witness ==
  /\ spc = "returned"
  /\ sn >= 3
  /\ \E k \in 1..(Len(sa) - 1) : sa[k][1] = sa[k + 1][1]
  /\ \E k \in 1..(Len(sa) - 1) : sa[k][2] > sa[k + 1][2]

(***************************************************************************)
(* measure(args).  The clock counts whole milliseconds; a record is kept   *)
(* as the three values console.warn is given (name, ms, ops per second)    *)
(* before they are padded and formatted.                                   *)
(***************************************************************************)
Ticks == 0..MaxTick

ArgsSet ==
  [f : {"returns", "throws"}, n : {0, 1000}, name : {"arrayFillB   [1M]"}]

\* a caller calls measure(args)
measure_Enter ==
  /\ mPc \in {"ready", "done"}
  /\ mCalls < MaxMeasures
  /\ mArgs' \in ArgsSet
  /\ mLog' = <<>>
  /\ mCalls' = mCalls + 1
  /\ mPc' = "entered"
  /\ UNCHANGED <<clock, mNow, mRecords, testVars, fillVars, asVars,
                 runVars, xsVars, mainVars, bucketVars, sortVars>>

\* const now = performance.now();
measure_Now ==
  /\ mPc = "entered"
  /\ \E d \in Ticks : clock' = clock + d
  /\ mNow' = clock'
  /\ mLog' = Append(mLog, "now")
  /\ mPc' = "timing"
  /\ UNCHANGED <<mArgs, mRecords, mCalls, testVars, fillVars, asVars,
                 runVars, xsVars, mainVars, bucketVars, sortVars>>

\* args.f();   f returns or throws, and time passes while it runs
measure_CallF_warmup ==
  /\ mPc = "timing"
  /\ \E d \in Ticks : clock' = clock + d
  /\ mLog' = mLog \o <<"f", "f">>
  /\ mPc' = IF mArgs.f = "throws" THEN "thrown" ELSE "ran"
  /\ UNCHANGED <<mArgs, mNow, mRecords, mCalls, testVars, fillVars, asVars,
                 runVars, xsVars, mainVars, bucketVars, sortVars>>

measure_CallF ==
  /\ mPc = "timing"
  /\ \E d \in Ticks : clock' = clock + d
  /\ mLog' = Append(mLog, "f")
  /\ mPc' = IF mArgs.f = "throws" THEN "thrown" ELSE "ran"
  /\ UNCHANGED <<mArgs, mNow, mRecords, mCalls, testVars, fillVars, asVars,
                 runVars, xsVars, mainVars, bucketVars, sortVars>>

\* args.n/ms*1000 with no fraction digits
OpsPerSecond(nn, ms) ==
  IF ms = 0
    THEN [kind |-> IF nn = 0 THEN "nan" ELSE "inf", val |-> 0]
    ELSE [kind |-> "num", val |-> ((2 * nn * 1000) + ms) \div (2 * ms)]

\* const ms = performance.now()-now; console.warn(...);
measure_Warn ==
  /\ mPc = "ran"
  /\ \E d \in Ticks : clock' = clock + d
  /\ mLog' = mLog \o <<"now", "warn">>
  /\ mRecords' = Append(mRecords,
                        [name |-> mArgs.name,
                         ms |-> clock' - mNow,
                         ops |-> OpsPerSecond(mArgs.n, clock' - mNow)])
  /\ mPc' = "done"
  /\ UNCHANGED <<mArgs, mNow, mCalls, testVars, fillVars, asVars,
                 runVars, xsVars, mainVars, bucketVars, sortVars>>

InitMeasure ==
  /\ mPc = "ready"
  /\ mArgs = [f |-> "returns", n |-> 0, name |-> ""]
  /\ clock \in Ticks
  /\ mNow = 0
  /\ mLog = <<>>
  /\ mRecords = <<>>
  /\ mCalls = 0
  /\ IdleTest /\ IdleFill /\ IdleAS
  /\ IdleRuns
  /\ seed = [p \in Runs |-> <<0, 0>>]
  /\ IdleXs
  /\ IdleMain
  /\ IdleBucket
  /\ IdleSort

NextMeasure ==
  \/ measure_Enter
  \/ measure_Now
  \/ measure_CallF
  \/ measure_Warn

SpecMeasure == InitMeasure /\ [][NextMeasure]_vars

\* C11: a call of measure reads the clock, then invokes args.f exactly once,
\* then reads the clock again and emits exactly one record; f is never
\* invoked a second time, and when f fails no record is emitted.
C11_MeasureOnce ==
  /\ mPc = "ready" => (mLog = <<>> /\ mRecords = <<>>)
  /\ mPc = "entered" => mLog = <<>>
  /\ mPc = "timing" => mLog = <<"now">>
  /\ mPc \in {"ran", "thrown"} => mLog = <<"now", "f">>
  /\ mPc = "done" => mLog = <<"now", "f", "now", "warn">>
  /\ Cardinality({k \in 1..Len(mLog) : mLog[k] = "f"}) <= 1
  /\ Len(mRecords) = (IF mPc = "done" THEN mCalls
                      ELSE IF mCalls = 0 THEN 0 ELSE mCalls - 1)
  /\ mPc = "thrown" => mArgs.f = "throws"

C11_Witness ==
  /\ mPc = "thrown"
  /\ mCalls = 2
  /\ Len(mRecords) = 1
  /\ mRecords[1].ms > 0

(***************************************************************************)
(* arrayFillA(n)() and arrayFillB(n)(), called with the same n.            *)
(***************************************************************************)
\* an element of an array of numbers that has not been set
Hole == -1

\* the length of Array.from({ length:n })
ToLength(nn) == IF nn < 0 THEN 0 ELSE nn

\* (_, i) => i
MapIndex(ix) == ix

\* Array.from({ length:n }, (_, i) => i): the element at the next index
arrayFillA_Map ==
  /\ fApc = "start"
  /\ fAi < ToLength(fN)
  /\ fA' = Append(fA, MapIndex(fAi))
  /\ fAi' = fAi + 1
  /\ UNCHANGED <<fN, fApc, fB, fBi, fBpc, measureVars, testVars, asVars,
                 runVars, xsVars, mainVars, bucketVars, sortVars>>

arrayFillA_Return ==
  /\ fApc = "start"
  /\ ~(fAi < ToLength(fN))
  /\ fApc' = "returned"
  /\ UNCHANGED <<fN, fA, fAi, fB, fBi, fBpc, measureVars, testVars, asVars,
                 runVars, xsVars, mainVars, bucketVars, sortVars>>

\* const a:number[] = Array.from({ length:n });
arrayFillB_Alloc ==
  /\ fBpc = "start"
  /\ fB' = [k \in 1..ToLength(fN) |-> Hole]
  /\ fBi' = 0
  /\ fBpc' = "fill"
  /\ UNCHANGED <<fN, fA, fAi, fApc, measureVars, testVars, asVars,
                 runVars, xsVars, mainVars, bucketVars, sortVars>>

\* a[i] = i+1;
arrayFillB_Put ==
  /\ fBpc = "fill"
  /\ fBi < fN
  /\ fB' = [fB EXCEPT ![fBi + 1] = fBi + 1]
  /\ fBi' = fBi + 1
  /\ UNCHANGED <<fN, fA, fAi, fApc, fBpc, measureVars, testVars, asVars,
                 runVars, xsVars, mainVars, bucketVars, sortVars>>

\* return a;
arrayFillB_Return ==
  /\ fBpc = "fill"
  /\ ~(fBi < fN)
  /\ fBpc' = "returned"
  /\ UNCHANGED <<fN, fA, fAi, fApc, fB, fBi, measureVars, testVars, asVars,
                 runVars, xsVars, mainVars, bucketVars, sortVars>>

InitFill ==
  /\ fN \in {-1} \cup (0..MaxFillN)
  /\ fA = <<>>
  /\ fAi = 0
  /\ fApc = "start"
  /\ fB = <<>>
  /\ fBi = 0
  /\ fBpc = "start"
  /\ IdleMeasure /\ IdleTest /\ IdleAS
  /\ IdleRuns
  /\ seed = [p \in Runs |-> <<0, 0>>]
  /\ IdleXs
  /\ IdleMain
  /\ IdleBucket
  /\ IdleSort

NextFill ==
  \/ arrayFillA_Map
  \/ arrayFillA_Return
  \/ arrayFillB_Alloc
  \/ arrayFillB_Put
  \/ arrayFillB_Return

SpecFill == InitFill /\ [][NextFill]_vars

\* C13: for every n >= 0, arrayFillA(n)() and arrayFillB(n)() return the
\* same array, the array of length n whose element i is i+1.
C13_FillersAgree ==
  (fN >= 0 /\ fApc = "returned" /\ fBpc = "returned") =>
    /\ fA = fB
    /\ fA = [k \in 1..fN |-> k]

(***************************************************************************)
(* test of util.test.ts: the check of an array b against the reference     *)
(* arrayFillB(n)().  b is any array of unsigned numbers.                   *)
(***************************************************************************)
\* the array arrayFillB(n)() returns
arrayFillB(nn) == [k \in 1..ToLength(nn) |-> k]

\* (_a, _b) => _a-_b
CompareNumbersDescending(x, y) == y - x
CompareNumbers(x, y) == x - y

RECURSIVE InsertNumber(_, _)
InsertNumber(sorted, e) ==
  IF sorted = <<>> THEN <<e>>
  ELSE IF CompareNumbers(sorted[Len(sorted)], e) > 0
    THEN Append(InsertNumber(SubSeq(sorted, 1, Len(sorted) - 1), e),
                sorted[Len(sorted)])
    ELSE Append(sorted, e)

\* b.sort((_a, _b) => _a-_b)
RECURSIVE SortNumbers(_)
SortNumbers(b) ==
  IF b = <<>> THEN <<>>
  ELSE InsertNumber(SortNumbers(SubSeq(b, 1, Len(b) - 1)), b[Len(b)])

\* const a = arrayFillB(n)();
test_Reference ==
  /\ tPc = "start"
  /\ tA' = arrayFillB(tN)
  /\ tPc' = "built"
  /\ UNCHANGED <<tN, tB, tCand, measureVars, fillVars, asVars,
                 runVars, xsVars, mainVars, bucketVars, sortVars>>

\* assert.strictEqual(a.length, n, ...)
test_AssertLengthA ==
  /\ tPc = "built"
  /\ tPc' = IF Len(tA) = tN THEN "lengthA" ELSE "AssertionError"
  /\ UNCHANGED <<tN, tA, tB, tCand, measureVars, fillVars, asVars,
                 runVars, xsVars, mainVars, bucketVars, sortVars>>

\* assert.strictEqual(b.length, n, ...)
test_AssertLengthB ==
  /\ tPc = "lengthA"
  /\ tPc' = IF Len(tB) = tN THEN "lengthB" ELSE "AssertionError"
  /\ UNCHANGED <<tN, tA, tB, tCand, measureVars, fillVars, asVars,
                 runVars, xsVars, mainVars, bucketVars, sortVars>>

\* b.sort((_a, _b) => _a-_b);
test_Sort ==
  /\ tPc = "lengthB"
  /\ tB' = SortNumbers(tB)
  /\ tPc' = "sorted"
  /\ UNCHANGED <<tN, tA, tCand, measureVars, fillVars, asVars,
                 runVars, xsVars, mainVars, bucketVars, sortVars>>

\* assert.ok((() => { for(...) if(a[i] !== b[i]) return false; return true; })())
test_AssertSame ==
  /\ tPc = "sorted"
  /\ tPc' = IF \A k \in 1..Len(tA) : tA[k] = tB[k]
              THEN "passed" ELSE "AssertionError"
  /\ UNCHANGED <<tN, tA, tB, tCand, measureVars, fillVars, asVars,
                 runVars, xsVars, mainVars, bucketVars, sortVars>>

Candidates ==
  UNION {[1..len -> 0..(MaxCandLen + 1)] : len \in 0..MaxCandLen}

InitTest ==
  /\ tPc = "start"
  /\ tN \in 0..MaxCandLen
  /\ tA = <<>>
  /\ tB \in Candidates
  /\ tCand = tB
  /\ IdleMeasure /\ IdleFill /\ IdleAS
  /\ IdleRuns
  /\ seed = [p \in Runs |-> <<0, 0>>]
  /\ IdleXs
  /\ IdleMain
  /\ IdleBucket
  /\ IdleSort

NextTest ==
  \/ test_Reference
  \/ test_AssertLengthA
  \/ test_AssertLengthB
  \/ test_Sort
  \/ test_AssertSame

SpecTest == InitTest /\ [][NextTest]_vars

\* C12: the check passes exactly when b is a permutation of 1..N: it fails
\* for every b whose length is not N or whose values are not 1..N once
\* each, and the reference array stays [1, ..., N].
C12_CheckIffPermutation ==
  /\ tPc = "passed" => IsPermutation(tCand, tN)
  /\ tPc = "AssertionError" => ~IsPermutation(tCand, tN)
  /\ tPc \notin {"idle", "start"} => tA = [k \in 1..tN |-> k]

C12_Witness ==
  /\ tPc = "passed"
  /\ tN >= 3
  /\ tCand # tB

(***************************************************************************)
(* The shuffle loop of AFB_x_AS_x_OPT, iteration by iteration.             *)
(***************************************************************************)
\* C14: AFB_x_AS_x_OPT(N)() runs the shuffle loop for i = N-1 down to 1,
\* N-1 iterations, each with one draw and one swap; for N = 1 it draws and
\* swaps nothing, leaves the generator's state as it was and returns [1].
C14_ExactIterations ==
  /\ [](\A p \in Runs :
          (strat[p] = OPT /\ n[p] >= 1) =>
            /\ pc[p] = "shuffle" =>
                 /\ i[p] \in 0..(n[p] - 1)
                 /\ Len(outs[p]) = n[p] - 1 - i[p]
            /\ pc[p] = "returned" =>
                 /\ i[p] = 0
                 /\ Len(outs[p]) = n[p] - 1
            /\ (pc[p] = "returned" /\ n[p] = 1) =>
                 /\ a[p] = <<1>>
                 /\ outs[p] = <<>>)
  /\ [][\A p \in Runs :
          (strat[p] = OPT /\ n[p] >= 1) =>
            /\ n[p] = 1 => seed'[p] = seed[p]
            /\ (pc[p] = "shuffle" /\ (a'[p] # a[p] \/ outs'[p] # outs[p] \/ i'[p] # i[p])) =>
                 /\ i[p] >= 1
                 /\ i'[p] = i[p] - 1
                 /\ Len(outs'[p]) = Len(outs[p]) + 1
                 /\ seed'[p] # seed[p]
                 /\ \E j \in 0..i[p] : a'[p] = Swap(a[p], i[p], j)]_vars

C14_Witness ==
  /\ strat[1] = OPT
  /\ pc[1] = "returned"
  /\ n[1] >= 2
  /\ i[1] = 0
  /\ Len(outs[1]) = n[1] - 1
  /\ pc[2] = "start"

\* C15: every value a mulberry32 generator returns is k / 2^32 with k an
\* integer in [0, 2^32); in each iteration i of the swap shuffle the index
\* j = floor(draw * (i+1)) is in 0..i and the swap leaves every position
\* above i as it was.
C15_DrawAndIndexInRange ==
  /\ [](\A p \in Runs : \A k \in 1..Len(outs[p]) : IsUint32(outs[p][k]))
  /\ [][\A p \in Runs :
          (strat[p] \in {OPT, NO_INIT} /\ outs'[p] # outs[p]) =>
            LET draw == outs'[p][Len(outs'[p])]
                j == FloorScale(draw, i[p] + 1)
            IN  /\ i[p] \in 1..(n[p] - 1)
                /\ j \in 0..i[p]
                /\ Len(a'[p]) = Len(a[p])
                /\ \A q \in 1..Len(a[p]) :
                     (q # i[p] + 1 /\ q # j + 1) => a'[p][q] = a[p][q]]_vars

C15_Witness ==
  \E p \in Runs :
    /\ strat[p] = OPT
    /\ pc[p] = "returned"
    /\ n[p] >= 3
    /\ FloorScale(outs[p][1], n[p]) = n[p] - 1
    /\ \E k \in 1..Len(outs[p]) : outs[p][k][1] >= HalfW

(***************************************************************************)
(* The swap shuffle driven by Math.random(): AFB_x_AS(n)() and             *)
(* arrayShuffle(arrayFillB(n)())(), one invocation of each kind per run.   *)
(* asJs[u] lists the indices j the run has computed so far.                *)
(***************************************************************************)
AS == "AFB_x_AS"
ARRAY_SHUFFLE == "arrayShuffle"

\* const a = Array.from({ length:n }); for(let i=0;i<n;++i) a[i] = i+1;
AFB_x_AS_Fill(u) ==
  /\ asPc[u] = "start"
  /\ asStrat[u] = AS
  /\ asA' = [asA EXCEPT ![u] = FillAscending(ToLength(asN[u]))]
  /\ asI' = [asI EXCEPT ![u] = asN[u] - 1]
  /\ asPc' = [asPc EXCEPT ![u] = "shuffle"]
  /\ UNCHANGED <<asN, asStrat, asJs, measureVars, testVars, fillVars,
                 runVars, xsVars, mainVars, bucketVars, sortVars>>

\* an iteration that draws its index over the whole array
AFB_x_AS_Swap_naive(u) ==
  /\ asPc[u] = "shuffle"
  /\ asStrat[u] = AS
  /\ asI[u] > 0
  /\ \E r \in RandomSet :
       LET j == FloorRandom(r, asN[u])
       IN  /\ asA' = [asA EXCEPT ![u] = Swap(asA[u], asI[u], j)]
           /\ asJs' = [asJs EXCEPT ![u] = Append(@, j)]
  /\ asI' = [asI EXCEPT ![u] = asI[u] - 1]
  /\ UNCHANGED <<asPc, asN, asStrat, measureVars, testVars, fillVars,
                 runVars, xsVars, mainVars, bucketVars, sortVars>>

\* one iteration of for(let i=n-1;i>0;--i) { const j = ...; swap }
AFB_x_AS_Swap(u) ==
  /\ asPc[u] = "shuffle"
  /\ asStrat[u] = AS
  /\ asI[u] > 0
  /\ \E r \in RandomSet :
       LET j == FloorRandom(r, asI[u] + 1)
       IN  /\ asA' = [asA EXCEPT ![u] = Swap(asA[u], asI[u], j)]
           /\ asJs' = [asJs EXCEPT ![u] = Append(@, j)]
  /\ asI' = [asI EXCEPT ![u] = asI[u] - 1]
  /\ UNCHANGED <<asPc, asN, asStrat, measureVars, testVars, fillVars,
                 runVars, xsVars, mainVars, bucketVars, sortVars>>

\* return a;
AFB_x_AS_Return(u) ==
  /\ asPc[u] = "shuffle"
  /\ asStrat[u] = AS
  /\ ~(asI[u] > 0)
  /\ asPc' = [asPc EXCEPT ![u] = "returned"]
  /\ UNCHANGED <<asN, asStrat, asA, asI, asJs, measureVars, testVars, fillVars,
                 runVars, xsVars, mainVars, bucketVars, sortVars>>

\* arrayShuffle(a)(): let i=a.length-1
arrayShuffle_Enter(u) ==
  /\ asPc[u] = "start"
  /\ asStrat[u] = ARRAY_SHUFFLE
  /\ asI' = [asI EXCEPT ![u] = Len(asA[u]) - 1]
  /\ asPc' = [asPc EXCEPT ![u] = "shuffle"]
  /\ UNCHANGED <<asN, asStrat, asA, asJs, measureVars, testVars, fillVars,
                 runVars, xsVars, mainVars, bucketVars, sortVars>>

\* one iteration of for(let i=a.length-1;i>0;--i) { const j = ...; swap }
arrayShuffle_Swap(u) ==
  /\ asPc[u] = "shuffle"
  /\ asStrat[u] = ARRAY_SHUFFLE
  /\ asI[u] > 0
  /\ \E r \in RandomSet :
       LET j == FloorRandom(r, asI[u] + 1)
       IN  /\ asA' = [asA EXCEPT ![u] = Swap(asA[u], asI[u], j)]
           /\ asJs' = [asJs EXCEPT ![u] = Append(@, j)]
  /\ asI' = [asI EXCEPT ![u] = asI[u] - 1]
  /\ UNCHANGED <<asPc, asN, asStrat, measureVars, testVars, fillVars,
                 runVars, xsVars, mainVars, bucketVars, sortVars>>

\* return a;
arrayShuffle_Return(u) ==
  /\ asPc[u] = "shuffle"
  /\ asStrat[u] = ARRAY_SHUFFLE
  /\ ~(asI[u] > 0)
  /\ asPc' = [asPc EXCEPT ![u] = "returned"]
  /\ UNCHANGED <<asN, asStrat, asA, asI, asJs, measureVars, testVars, fillVars,
                 runVars, xsVars, mainVars, bucketVars, sortVars>>

InitAS ==
  /\ asPc = [u \in Runs |-> "start"]
  /\ \E nn \in 0..MaxShuffleN : asN = [u \in Runs |-> nn]
  /\ asStrat \in [Runs -> {AS, ARRAY_SHUFFLE}]
  /\ asA = [u \in Runs |->
              IF asStrat[u] = ARRAY_SHUFFLE THEN arrayFillB(asN[u]) ELSE <<>>]
  /\ asI = [u \in Runs |-> 0]
  /\ asJs = [u \in Runs |-> <<>>]
  /\ IdleMeasure /\ IdleTest /\ IdleFill
  /\ IdleRuns
  /\ seed = [p \in Runs |-> <<0, 0>>]
  /\ IdleXs
  /\ IdleMain
  /\ IdleBucket
  /\ IdleSort

NextAS ==
  \E u \in Runs :
    \/ AFB_x_AS_Fill(u)
    \/ AFB_x_AS_Swap(u)
    \/ AFB_x_AS_Return(u)
    \/ arrayShuffle_Enter(u)
    \/ arrayShuffle_Swap(u)
    \/ arrayShuffle_Return(u)

SpecAS == InitAS /\ [][NextAS]_vars

\* the buffer after the iterations i = Len(b)-1, Len(b)-2, ... have swapped
\* with the indices js[1], js[2], ...
RECURSIVE ApplyChoices(_, _)
ApplyChoices(b, js) ==
  IF js = <<>> THEN b
  ELSE Swap(ApplyChoices(b, SubSeq(js, 1, Len(js) - 1)),
            Len(b) - Len(js), js[Len(js)])

\* the choice sequences of a shuffle of len elements: one j in 0..i for
\* each of i = len-1, ..., 1
ChoiceSequences(len) ==
  {js \in [1..(len - 1) -> 0..(len - 1)] : \A t \in 1..(len - 1) : js[t] <= len - t}

\* the orderings of 1..len
Orderings(len) == {b \in [1..len -> 1..len] : IsPermutation(b, len)}

\* C16: in the swap shuffle with j free in [0,i] the map from choice
\* sequences to returned buffers is a bijection onto the permutations of
\* 1..N: a run returns the buffer its choices determine, two runs return the
\* same buffer exactly when they made the same choices, and every ordering
\* of 1..N is the result of a choice sequence.
C16_ShuffleBijection ==
  /\ \A u \in Runs :
       asPc[u] = "returned" =>
         /\ IsPermutation(asA[u], asN[u])
         /\ asJs[u] \in ChoiceSequences(asN[u])
         /\ asA[u] = ApplyChoices(FillAscending(asN[u]), asJs[u])
  /\ (asPc[1] = "returned" /\ asPc[2] = "returned") =>
       (asJs[1] = asJs[2] <=> asA[1] = asA[2])
  /\ (asPc[1] = "start" /\ asPc[2] = "start") =>
       \A b \in Orderings(asN[1]) :
         Cardinality({js \in ChoiceSequences(asN[1]) :
                        ApplyChoices(FillAscending(asN[1]), js) = b}) = 1

C16_Witness ==
  /\ asPc[1] = "returned"
  /\ asPc[2] = "returned"
  /\ asStrat[1] # asStrat[2]
  /\ asN[1] >= 3
  /\ asJs[1] # asJs[2]
  /\ asA[1] = [k \in 1..asN[1] |-> asN[1] + 1 - k]

(***************************************************************************)
(* The memory of BucketRadixShuffle during the distribution loop, and a    *)
(* second invocation of the thunk.                                         *)
(***************************************************************************)
\* C17: during the distribution loop on zeroed memory, once bi indices are
\* placed each of 1..bi is held by exactly one slot exactly once and nothing
\* else is held; a slot is 0, one number, or a list of at least two numbers
\* in ascending order; the length of the memory never changes.
C17_DistributionInvariant ==
  /\ [](binv = 1 =>
          LET held == Flat(m, Len(m))
          IN  /\ Len(held) = bi
              /\ \A v \in 1..bi :
                   Cardinality({k \in 1..Len(held) : held[k] = v}) = 1
              /\ \A s \in 1..Len(m) :
                   \/ m[s] = NumberValue(0)
                   \/ m[s].tag = "num" /\ m[s].num \in 1..bi
                   \/ /\ m[s].tag = "arr"
                      /\ Len(m[s].arr) >= 2
                      /\ \A j \in 1..(Len(m[s].arr) - 1) :
                           m[s].arr[j] < m[s].arr[j + 1])
  /\ [][Len(m') = Len(m)]_vars

C17_Witness ==
  /\ binv = 1
  /\ bpc = "distribute"
  /\ bi = bn
  /\ bn >= 3
  /\ \E s \in 1..Len(m) : m[s].tag = "arr"
  /\ \E s \in 1..Len(m) : m[s].tag = "num" /\ m[s].num # 0
  /\ \E s \in 1..Len(m) : m[s] = NumberValue(0)

\* C18: an invocation of the BucketRadixShuffle(m, N) thunk, the first or a
\* later one on the same memory, emits only the N indices it distributed:
\* the returned array holds at most N numbers, all in 1..N, none twice.
C18_InvocationEmitsOwnIndices ==
  bpc = "returned" =>
    LET emitted == Flat(ba, Len(ba))
    IN  /\ Len(emitted) <= bn
        /\ \A k \in 1..Len(emitted) : emitted[k] \in 1..bn
        /\ \A v \in 1..bn :
             Cardinality({k \in 1..Len(emitted) : emitted[k] = v}) <= 1

====
